---- MODULE Spec2Model ----
(***************************************************************************)
(* Model of the csfd-ratings content script                                *)
(* (src/csfd-distribution-rating.js, first async function, lines 57-303):  *)
(* the traversal of the rating pages, the localStorage cache with its      *)
(* one-week expiration, the deferred pruning loop and the reload button.   *)
(*                                                                         *)
(* One action is one run-to-completion turn of the JavaScript event loop:  *)
(* the code between two suspension points (await, setTimeout, click).      *)
(***************************************************************************)
EXTENDS Integers, Sequences, FiniteSets, TLC

(***************************************************************************)
(* Bounds of the model.                                                    *)
(***************************************************************************)
\* largest iteration ceiling tried (the script hard-codes 40)
MaxPages == 3
\* cap on the pages one traversal is followed for (an endless source with a
\* ceiling that is never reached would otherwise run forever)
MaxMerged == 4
\* number of clock advances
MaxTicks == 1
\* number of visits (page loads) of the same film page
MaxVisits == 2
\* most pages merged in the merge-order specification
MaxMergeLen == 3
\* largest concurrency_width tried (the default is 6)
MaxWidth == 3
\* largest page index a speculative retrieval is issued for
MaxIndex == 5
\* largest iteration ceiling tried in the speculative traversal
MaxBudget == 4

(***************************************************************************)
(* Program constants.                                                      *)
(***************************************************************************)
CACHE_TIME_TO_LIVE_MINUTES == 10080

\* 1000 * 60 * CACHE_TIME_TO_LIVE_MINUTES, the addend of read_cache
TTL == 1000 * 60 * CACHE_TIME_TO_LIVE_MINUTES

RATINGS_SELECTORS == <<"stars-5", "stars-4", "stars-3", "stars-2", "stars-1", "trash">>

Sel == 1..Len(RATINGS_SELECTORS)

\* the result of parseInt on something that is no number, and of arithmetic on it
NaN == -999999

\* href of a page without a.page-next:not(.disabled): null
NoRef == 0

\* cache_key when the location is no /film/ page: null
NoKey == "null"

\* localStorage keys: two films under CACHE_KEY_PREFIX, one foreign key
PrefixedKeys == {"csfd-dist-rating-cache-A", "csfd-dist-rating-cache-B"}

ForeignKey == "theme"

Keys == PrefixedKeys \cup {ForeignKey}

\* the key digestMessage derives for the film page visited
FilmKey == "csfd-dist-rating-cache-A"

(***************************************************************************)
(* JavaScript arithmetic on numbers that may be NaN.                       *)
(***************************************************************************)
Add(a, b) == IF a = NaN \/ b = NaN THEN NaN ELSE a + b

Sub(a, b) == IF a = NaN \/ b = NaN THEN NaN ELSE a - b

\* a > b; every comparison with NaN is false
Gt(a, b) == IF a = NaN \/ b = NaN THEN FALSE ELSE a > b

\* Math.max(a, b)
MathMax(a, b) == IF a = NaN \/ b = NaN THEN NaN ELSE IF a > b THEN a ELSE b

Zero == [s \in Sel |-> 0]

Unit(k, n) == [s \in Sel |-> IF s = k THEN n ELSE 0]

(***************************************************************************)
(* JSON values as localStorage holds them.  A field is a JSON number, a    *)
(* JSON string that is no number, or is missing.                           *)
(***************************************************************************)
Num(v) == [t |-> "num", v |-> v]

Str == [t |-> "str", v |-> 0]

Missing == [t |-> "none", v |-> 0]

\* parseInt(x) of a JSON field
parseInt(raw) == IF raw.t = "num" THEN raw.v ELSE NaN

\* JSON.stringify of one number: NaN is written as null
Stringify(v) == IF v = NaN THEN Missing ELSE Num(v)

NoSlots == [s \in Sel |-> Missing]

\* nothing stored under the key
Absent == [kind |-> "absent", timestamp |-> Missing, ratings |-> [t |-> "undef", slots |-> NoSlots]]

\* a stored string JSON.parse throws on
Garbage == [kind |-> "garbage", timestamp |-> Missing, ratings |-> [t |-> "undef", slots |-> NoSlots]]

\* the stored string "null"
JsonNull == [kind |-> "null", timestamp |-> Missing, ratings |-> [t |-> "undef", slots |-> NoSlots]]

\* a stored JSON object {"ratings": r, "timestamp": ts}
Object(ts, r) == [kind |-> "object", timestamp |-> ts, ratings |-> r]

Ratings(slots) == [t |-> "obj", slots |-> slots]

NoRatings == [t |-> "undef", slots |-> NoSlots]

Ones == [s \in Sel |-> Num(1)]

\* entries the store may hold when a visit starts
SampleEntries ==
    { Absent, Garbage, JsonNull,
      Object(Num(0 - TTL - 1), Ratings(Ones)),
      Object(Num(0 - TTL), Ratings(Ones)),
      Object(Num(0), Ratings(Ones)),
      Object(Missing, Ratings(Ones)),
      Object(Num(0), NoRatings),
      Object(Num(0), Ratings([Ones EXCEPT ![3] = Missing])),
      Object(Num(0), Ratings([Ones EXCEPT ![2] = Str])),
      Object(Num(0), Ratings([Ones EXCEPT ![1] = Num(0 - 5)])) }

OtherFilmEntries ==
    { Object(Num(0 - TTL - 1), Ratings(Ones)),
      Object(Num(0), NoRatings) }

(***************************************************************************)
(* The page source: the rating pages of the film.  pages[p] is what        *)
(* querySelectorAll counts on page p; a source that is not endless ends    *)
(* with a page whose a.page-next is disabled.  An empty sequence is a film *)
(* page without section.others-rating.                                     *)
(***************************************************************************)
PageA == Unit(1, 1)

PageB == Unit(2, 2)

PageC == Unit(6, 3)

Sources ==
    { [pages |-> <<>>, endless |-> FALSE],
      [pages |-> <<PageA>>, endless |-> FALSE],
      [pages |-> <<PageA, PageB>>, endless |-> FALSE],
      [pages |-> <<PageA, PageB, PageC>>, endless |-> FALSE],
      [pages |-> <<PageA>>, endless |-> TRUE] }

VARIABLES
    max_pages,      \* MAX_RATING_PAGES_TO_FETCH of this run
    src,            \* the page source
    cache_key,      \* cache_key (line 277)
    localStorage,   \* key -> stored entry
    now,            \* Date.now(), in ms from the first page load
    ticks,          \* clock advances so far
    visit,          \* page loads so far
    pc,             \* where the script is suspended
    ratings_dist,   \* the cumulated distribution
    i,              \* the loop counter of line 284
    inflight,       \* the fetch() awaited at line 80
    ui,             \* what update_ui last set on the progress bars
    nsnap,          \* calls of update_ui in this visit
    fetches,        \* fetch() calls in this visit
    merged,         \* calls of sink in this visit
    writes,         \* localStorage writes of write_cache in this visit
    failure,        \* how the last awaited fetch failed, and the href it was for
    cached,         \* the read_cache of line 278: result, entry read, time, last write before it
    written,        \* the last write of write_cache: histogram and time
    ppc,            \* state of the pruning loop
    pkeys,          \* keys collected by prune_cache
    pidx,           \* the i of process(i)
    pcalls,         \* calls of process in this visit
    applied,        \* indices of the pages merged, in the order-free specifications
    concurrency_width, \* the width option of the speculative traversal
    in_flight,      \* indices of the retrievals outstanding
    next_index,     \* index the next speculative retrieval is issued for
    terminal_index, \* lowest index known to be terminal, 0 when none is
    phase           \* state of the speculative traversal

vars == <<max_pages, src, cache_key, localStorage, now, ticks, visit, pc,
          ratings_dist, i, inflight, ui, nsnap, fetches, merged, writes,
          failure, cached, written, ppc, pkeys, pidx, pcalls,
          applied, concurrency_width, in_flight, next_index, terminal_index, phase>>

\* the traversal state of the speculative variant; the script of
\* csfd-distribution-rating.js is the sequential one and leaves it alone
speculation == <<applied, concurrency_width, in_flight, next_index,
                 terminal_index, phase>>

NoSpeculation ==
    /\ applied = {}
    /\ concurrency_width = 1
    /\ in_flight = {}
    /\ next_index = 1
    /\ terminal_index = 0
    /\ phase = "unused"

config == <<max_pages, src, cache_key, speculation>>

session == <<pc, ratings_dist, i, inflight, ui, nsnap, fetches, merged,
             writes, failure, cached>>

pruner == <<ppc, pkeys, pidx, pcalls>>

clock == <<now, ticks>>

(***************************************************************************)
(* Pure helpers of the script.                                             *)
(***************************************************************************)
\* what querySelectorAll finds on page p of the source
PageCounts(p) == src.pages[((p - 1) % Len(src.pages)) + 1]

\* the selector without :not(.disabled): the href of a.page-next
get_next_page_url_disabled(p) == p + 1

\* get_next_page_url: the href of a.page-next:not(.disabled), or null
get_next_page_url(p) ==
    IF src.endless \/ p < Len(src.pages) THEN p + 1 ELSE NoRef

\* `!url` of fetch_next_page_html: url is new URL(href, window.origin), an
\* object whatever href is (new URL(null, origin) is origin + "/null")
UrlIsFalsy(href) == FALSE

\* sink with `-=` in place of `+=`
sink_minus(p, dist) == [s \in Sel |-> Sub(dist[s], PageCounts(p)[s])]

\* sink with `=` in place of `+=`
sink_assign(p, dist) == [s \in Sel |-> PageCounts(p)[s]]

\* sink: dist[sel] += elements.length, for every selector
sink(p, dist) == [s \in Sel |-> Add(dist[s], PageCounts(p)[s])]

RECURSIVE MaxUpTo(_, _)
\* the first loop of update_ui: total = Math.max(total, dist[sel]) from 0
MaxUpTo(dist, n) ==
    IF n = 0 THEN 0 ELSE MathMax(MaxUpTo(dist, n - 1), dist[n])

\* update_ui: the value and max attributes set on the progress bars
update_ui(dist, iteration) ==
    [value |-> dist, max |-> Add(MaxUpTo(dist, Len(RATINGS_SELECTORS)), iteration)]

\* the expiration test with `>=` in place of `>`
Expired_ge(timestamp) ==
    LET d == Sub(now, Add(parseInt(timestamp), TTL)) IN d # NaN /\ d >= 0

\* `Date.now() - expiration > 0` of read_cache
Expired(timestamp) == Gt(Sub(now, Add(parseInt(timestamp), TTL)), 0)

\* read_cache with the loop over destination ahead of the expiration test
read_cache_eager(key, destination) ==
    LET json == IF key # NoKey THEN localStorage[key] ELSE Absent
        miss == [ok |-> FALSE, dest |-> destination]
        filled == [s \in DOMAIN destination |-> parseInt(json.ratings.slots[s])]
    IN  IF json.kind = "absent" THEN miss
        ELSE IF json.kind \in {"garbage", "null"} THEN miss
        ELSE IF DOMAIN destination # {} /\ json.ratings.t = "undef" THEN miss
        ELSE IF Expired(json.timestamp) THEN [ok |-> FALSE, dest |-> filled]
        ELSE [ok |-> TRUE, dest |-> filled]

\* read_cache(key, destination): the boolean returned and destination after
\* the call.  destination is ratings_dist (six keys) or {} (no key).
read_cache(key, destination) ==
    LET json == IF key # NoKey THEN localStorage[key] ELSE Absent
        miss == [ok |-> FALSE, dest |-> destination]
    IN  IF json.kind = "absent" THEN miss
        ELSE IF json.kind \in {"garbage", "null"} THEN miss
        ELSE IF Expired(json.timestamp) THEN miss
        ELSE IF DOMAIN destination # {} /\ json.ratings.t = "undef" THEN miss
        ELSE [ok |-> TRUE,
              dest |-> [s \in DOMAIN destination |-> parseInt(json.ratings.slots[s])]]

\* the entry write_cache stores: JSON.stringify({ratings, timestamp: Date.now()})
CacheEntry(ratings) ==
    Object(Stringify(now), Ratings([s \in Sel |-> Stringify(ratings[s])]))

\* write_cache that stores only when nothing is stored under the key
write_cache_ifabsent(key, ratings) ==
    IF key = NoKey \/ localStorage[key] # Absent THEN localStorage
    ELSE [localStorage EXCEPT ![key] = CacheEntry(ratings)]

\* write_cache without `if (!key) return`, storing under the prefix alone
write_cache_nocheck(key, ratings) ==
    [localStorage EXCEPT ![FilmKey] = CacheEntry(ratings)]

\* write_cache(key, ratings): localStorage after the call
write_cache(key, ratings) ==
    IF key = NoKey THEN localStorage
    ELSE [localStorage EXCEPT ![key] = CacheEntry(ratings)]

\* the loop test one iteration late
BudgetReached_late(i1) == i1 = 0 - 1

\* `i == 0` of the traversal loop, after --i
BudgetReached(i1) == i1 = 0

(***************************************************************************)
(* The traversal loop, lines 283-302.  A turn merges one page and then     *)
(* either leaves the loop (the script goes on to write_cache) or suspends  *)
(* in the fetch() of the next page.                                        *)
(***************************************************************************)
\* the script left the loop with distribution dist
Left(dist, ii, u, ns, m) ==
    [pc |-> "done", dist |-> dist, i |-> ii, ui |-> u, nsnap |-> ns,
     merged |-> m, fetch |-> FALSE, href |-> NoRef]

\* the iteration without its calls of update_ui
LoopTurn_nosnap(p, dist, ii, ns) ==
    LET i1 == ii - 1
        d1 == sink(p, dist)
        href == get_next_page_url(p)
    IN  IF BudgetReached(i1) THEN Left(d1, i1, ui, ns, 1)
        ELSE IF UrlIsFalsy(href) THEN Left(d1, i1, ui, ns, 1)
        ELSE [pc |-> "fetching", dist |-> d1, i |-> i1, ui |-> ui,
              nsnap |-> ns, merged |-> 1, fetch |-> TRUE, href |-> href]

\* one iteration of `while (source)` on page p, up to the await or the break
LoopTurn(p, dist, ii, ns) ==
    LET i1 == ii - 1
        d1 == sink(p, dist)
        href == get_next_page_url(p)
    IN  IF BudgetReached(i1) THEN Left(d1, i1, update_ui(d1, i1), ns + 1, 1)
        ELSE IF UrlIsFalsy(href) THEN Left(d1, i1, update_ui(d1, 0), ns + 2, 1)
        ELSE [pc |-> "fetching", dist |-> d1, i |-> i1, ui |-> update_ui(d1, i1),
              nsnap |-> ns + 1, merged |-> 1, fetch |-> TRUE, href |-> href]

\* lines 283-300 from `let source = document.querySelector(...)`
Traverse(dist, ns) ==
    IF Len(src.pages) = 0 THEN Left(dist, max_pages, ui, ns, 0)
    ELSE LoopTurn(1, dist, max_pages, ns)

\* the session after a turn r of the loop; leaving the loop runs write_cache
Apply(r) ==
    /\ pc' = r.pc
    /\ ratings_dist' = r.dist
    /\ i' = r.i
    /\ ui' = r.ui
    /\ nsnap' = r.nsnap
    /\ merged' = merged + r.merged
    /\ fetches' = fetches + (IF r.fetch THEN 1 ELSE 0)
    /\ inflight' = [active |-> r.fetch, href |-> r.href]
    /\ IF r.pc = "done"
         THEN /\ localStorage' = write_cache(cache_key, r.dist)
              /\ writes' = writes + (IF cache_key = NoKey THEN 0 ELSE 1)
              /\ written' = IF cache_key = NoKey THEN written
                            ELSE [done |-> TRUE, at |-> now, hist |-> r.dist]
         ELSE UNCHANGED <<localStorage, writes, written>>

NoWrite == [done |-> FALSE, at |-> 0, hist |-> Zero]

NotRead == [state |-> "none", entry |-> Absent, at |-> 0, hist |-> Zero, w |-> NoWrite]

NoFailure == [kind |-> "none", href |-> NoRef]

NoFetch == [active |-> FALSE, href |-> NoRef]

(***************************************************************************)
(* The initial state: the page has just been loaded.                       *)
(***************************************************************************)
Init ==
    /\ max_pages \in 0..MaxPages
    /\ src \in Sources
    /\ cache_key \in {FilmKey, NoKey}
    /\ \E e \in SampleEntries, o \in OtherFilmEntries :
         localStorage = [k \in Keys |->
                            IF k = FilmKey THEN e
                            ELSE IF k \in PrefixedKeys THEN o ELSE Garbage]
    /\ now = 0
    /\ ticks = 0
    /\ visit = 1
    /\ pc = "init"
    /\ ratings_dist = Zero
    /\ i = max_pages
    /\ inflight = NoFetch
    /\ ui = update_ui(Zero, 0)
    /\ nsnap = 0
    /\ fetches = 0
    /\ merged = 0
    /\ writes = 0
    /\ failure = NoFailure
    /\ cached = NotRead
    /\ written = NoWrite
    /\ ppc = "unscheduled"
    /\ pkeys = <<>>
    /\ pidx = 0
    /\ pcalls = 0
    /\ NoSpeculation

(***************************************************************************)
(* The session: lines 272-302.                                             *)
(***************************************************************************)
\* lines 272-276: initialize(), setTimeout(prune_cache, 1500), and, with a
\* film permalink, the await of digestMessage; without one the script runs on
\* into read_cache(null, ...) and the loop
Start ==
    /\ pc = "init"
    /\ ppc' = "scheduled"
    /\ UNCHANGED <<pkeys, pidx, pcalls, config, clock, visit, failure>>
    /\ IF cache_key = NoKey
         THEN /\ cached' = [state |-> "miss", entry |-> Absent, at |-> now,
                             hist |-> ratings_dist, w |-> written]
              /\ Apply(Traverse(read_cache(cache_key, ratings_dist).dest, nsnap))
         ELSE /\ pc' = "digest"
              /\ UNCHANGED <<ratings_dist, i, inflight, ui, nsnap, fetches, merged,
                             writes, cached, localStorage, written>>

\* lines 277-300 after digestMessage resolved: read_cache, and on a hit
\* update_ui and the await of maybe_reload, on a miss the loop
ReadCache ==
    /\ pc = "digest"
    /\ UNCHANGED <<pruner, config, clock, visit, failure>>
    /\ LET r == read_cache(cache_key, ratings_dist)
       IN  IF r.ok
             THEN /\ pc' = "gate"
                  /\ ratings_dist' = r.dest
                  /\ ui' = update_ui(r.dest, 0)
                  /\ nsnap' = nsnap + 1
                  /\ cached' = [state |-> "hit", entry |-> localStorage[cache_key],
                                 at |-> now, hist |-> r.dest, w |-> written]
                  /\ UNCHANGED <<i, inflight, fetches, merged, writes, localStorage, written>>
             ELSE /\ cached' = [state |-> "miss", entry |-> localStorage[cache_key],
                                 at |-> now, hist |-> r.dest, w |-> written]
                  /\ Apply(Traverse(r.dest, nsnap))

\* the listener without `ratings[k] = 0`
ResetOnClick_none(ratings) == ratings

\* `Object.keys(ratings).forEach(k => ratings[k] = 0)` of the click listener
ResetOnClick(ratings) == [s \in DOMAIN ratings |-> 0]

\* the reload button left in the page after the traversal, its listener
\* starting the loop again
GateOpen_stays == pc = "gate" \/ (pc = "done" /\ cached.state = "hit" /\ writes < 2)

\* the promise of maybe_reload is pending: the button is in the page and
\* its listener, which removes it, has not run
GateOpen == pc = "gate"

\* the click listener of maybe_reload (lines 220-224) and the code the
\* resolved promise resumes: the loop from line 283
Click ==
    /\ GateOpen
    /\ UNCHANGED <<pruner, config, clock, visit, failure, cached>>
    /\ Apply(Traverse(ResetOnClick(ratings_dist), nsnap))

\* what the awaited fetch() of a page can end as: html with the section,
\* html without it, a response that is not ok, a rejected promise
Outcomes(href) ==
    IF href = NoRef THEN {"nosection", "notok", "throw"}
    ELSE {"ok", "nosection", "notok", "throw"}

\* lines 80-85 and 295-302 after the fetch() settled
FetchResolve(outcome) ==
    /\ pc = "fetching"
    /\ outcome \in Outcomes(inflight.href)
    /\ UNCHANGED <<pruner, config, clock, visit, cached>>
    /\ failure' = IF outcome = "ok" THEN failure
                  ELSE [kind |-> outcome, href |-> inflight.href]
    /\ CASE outcome = "throw" ->
              /\ pc' = "rejected"
              /\ inflight' = NoFetch
              /\ UNCHANGED <<ratings_dist, i, ui, nsnap, fetches, merged, writes,
                             localStorage, written>>
         [] outcome = "notok" ->
              Apply(Left(ratings_dist, i, update_ui(ratings_dist, 0), nsnap + 1, 0))
         [] outcome = "nosection" ->
              Apply(Left(ratings_dist, i, ui, nsnap, 0))
         [] outcome = "ok" ->
              /\ merged < MaxMerged
              /\ Apply(LoopTurn(inflight.href, ratings_dist, i, nsnap))

(***************************************************************************)
(* prune_cache, lines 184-203.                                             *)
(***************************************************************************)
RECURSIVE Orders(_)
\* the orders localStorage.key(i) may enumerate a set of keys in
Orders(S) ==
    IF S = {} THEN {<<>>}
    ELSE UNION {{Append(o, k) : o \in Orders(S \ {k})} : k \in S}

\* the keys collected without the match of key_prefix
Prunable_all == {k \in Keys : localStorage[k].kind # "absent"}

\* the keys prune_cache collects: stored, and matching ^CACHE_KEY_PREFIX
Prunable == {k \in PrefixedKeys : localStorage[k].kind # "absent"}

\* the test of process without the expiration: only what JSON.parse or the
\* destructuring throws on is to be removed
Invalid_unparsed(key) == localStorage[key].kind \in {"garbage", "null"}

\* the test of process without its negation
Invalid_inverted(key) == read_cache(key, <<>>).ok

\* `!read_cache(key, {})` of process: the entry is to be removed
Invalid(key) == ~read_cache(key, <<>>).ok

\* process without `--i`: the same key again with every timer
process_nodecrement(keys, idx) ==
    /\ pcalls' = pcalls + 1
    /\ pkeys' = keys
    /\ IF idx = 0
         THEN /\ ppc' = "done"
              /\ pidx' = 0
              /\ UNCHANGED localStorage
         ELSE /\ ppc' = "running"
              /\ pidx' = idx
              /\ localStorage' =
                    IF Invalid(keys[idx])
                      THEN [localStorage EXCEPT ![keys[idx]] = Absent]
                      ELSE localStorage

\* process(idx) over keys: the check of one key and the next timer
process(keys, idx) ==
    /\ pcalls' = pcalls + 1
    /\ pkeys' = keys
    /\ IF idx = 0
         THEN /\ ppc' = "done"
              /\ pidx' = 0
              /\ UNCHANGED localStorage
         ELSE /\ ppc' = "running"
              /\ pidx' = idx - 1
              /\ localStorage' =
                    IF Invalid(keys[idx])
                      THEN [localStorage EXCEPT ![keys[idx]] = Absent]
                      ELSE localStorage

\* the timer of line 273 fires: prune_cache collects the keys and calls
\* process(keys.length)
\* the timer held back while the script awaits the click on the reload button
TimerDue_notatgate == ppc = "scheduled" /\ pc # "gate"

\* the timer of line 273 is due: timers fire whatever the script awaits
TimerDue == ppc = "scheduled"

PruneStart ==
    /\ TimerDue
    /\ \E keys \in Orders(Prunable) : process(keys, Len(keys))
    /\ UNCHANGED <<session, config, clock, visit, written>>

\* a timer of line 200 fires: process(i)
PruneStep ==
    /\ ppc = "running"
    /\ process(pkeys, pidx)
    /\ UNCHANGED <<session, config, clock, visit, written>>

(***************************************************************************)
(* The environment: time passes; the user loads the page again.            *)
(***************************************************************************)
\* the clock advances by a week, or by a week and a millisecond
TickSteps == {TTL, TTL + 1}

Tick(d) ==
    /\ ticks < MaxTicks
    /\ now' = now + d
    /\ ticks' = ticks + 1
    /\ UNCHANGED <<session, pruner, config, visit, localStorage, written>>

\* a new page load of the same film: the script starts over, localStorage stays
Reload ==
    /\ visit < MaxVisits
    /\ pc \in {"gate", "done", "rejected"}
    /\ visit' = visit + 1
    /\ pc' = "init"
    /\ ratings_dist' = Zero
    /\ i' = max_pages
    /\ inflight' = NoFetch
    /\ ui' = update_ui(Zero, 0)
    /\ nsnap' = 0
    /\ fetches' = 0
    /\ merged' = 0
    /\ writes' = 0
    /\ failure' = NoFailure
    /\ cached' = NotRead
    /\ ppc' = "unscheduled"
    /\ pkeys' = <<>>
    /\ pidx' = 0
    /\ pcalls' = 0
    /\ UNCHANGED <<config, clock, localStorage, written>>

Next ==
    \/ Start
    \/ ReadCache
    \/ Click
    \/ \E outcome \in {"ok", "nosection", "notok", "throw"} : FetchResolve(outcome)
    \/ PruneStart
    \/ PruneStep
    \/ \E d \in TickSteps : Tick(d)
    \/ Reload

Spec == Init /\ [][Next]_vars

(***************************************************************************)
(* Properties.                                                             *)
(***************************************************************************)
\* number of pages of a source that ends
K == Len(src.pages)

Min(a, b) == IF a < b THEN a ELSE b

RECURSIVE SumFirst(_)
\* the element-wise sum of the count vectors of pages 1..n
SumFirst(n) ==
    IF n = 0 THEN Zero
    ELSE [s \in Sel |-> SumFirst(n - 1)[s] + PageCounts(n)[s]]

\* the traversal is over: the script ended, or its promise was rejected
Ended == pc \in {"done", "rejected"}

\* no fetch of a page the source has failed (the fetch of the URL built from
\* a null href is no page of the source)
NoPageFailed == failure.kind = "none" \/ failure.href = NoRef

C2_FinalIsSumOfPages ==
    (Ended /\ ~src.endless /\ K >= 1 /\ max_pages >= 1 /\ NoPageFailed)
        => /\ merged = Min(K, max_pages)
           /\ ratings_dist = SumFirst(Min(K, max_pages))

C2_Witness ==
    /\ pc = "done" /\ ~src.endless /\ K = 3 /\ max_pages = 3 /\ NoPageFailed
    /\ ratings_dist = <<1, 2, 0, 0, 0, 3>>

\* C3 as stated: over a source of K pages a traversal issues at most K-1
\* retrievals; after the terminal page was merged none is issued.
C3_NoFetchAfterTerminal ==
    (~src.endless /\ K >= 1 /\ max_pages >= 1) => fetches <= K - 1

\* C4 as stated: a failed page retrieval ends the traversal in the normal
\* finished state, never in an error state, with the pages merged so far.
C4_FailureEndsNormally ==
    (max_pages >= 1 /\ failure.kind # "none" /\ failure.href # NoRef)
        => /\ pc = "done"
           /\ ratings_dist = SumFirst(merged)

\* the entry is a JSON object with a numeric timestamp and six numeric slots
WellFormed(e) ==
    /\ e.kind = "object"
    /\ e.timestamp.t = "num"
    /\ e.ratings.t = "obj"
    /\ \A s \in Sel : e.ratings.slots[s].t = "num"

\* something is stored and it is not well formed
Corrupt(e) == e.kind # "absent" /\ ~WellFormed(e)

\* the distribution an entry holds, slot by slot
HistogramOf(e) == [s \in Sel |-> parseInt(e.ratings.slots[s])]

\* C5 as stated: the read of line 278 is a hit exactly when an entry is
\* stored, parses to an object with ratings, and now - created_at <= TTL.
C5_HitIffFresh ==
    (cached.state # "none" /\ cache_key # NoKey)
        => ( cached.state = "hit"
               <=> /\ cached.entry.kind = "object"
                   /\ cached.entry.ratings.t = "obj"
                   /\ cached.entry.timestamp.t = "num"
                   /\ cached.at - cached.entry.timestamp.v <= TTL )

\* C6: a read that follows a write_cache of the same key returns the written
\* distribution, slot by slot, when at most TTL has passed since the write,
\* and is a miss when more than TTL has passed.
C6_WriteThenRead ==
    (cached.state # "none" /\ cached.w.done)
        => IF cached.at - cached.w.at <= TTL
             THEN cached.state = "hit" /\ cached.hist = cached.w.hist
             ELSE cached.state = "miss"

C6_Witness ==
    /\ cached.w.done /\ cached.state = "hit"
    /\ cached.at - cached.w.at = TTL
    /\ cached.hist = <<1, 2, 0, 0, 0, 3>>

\* C7 as stated: an entry that is unparseable, or lacks the ratings or the
\* timestamp, or holds a non-numeric slot or timestamp, is never a hit.
C7_CorruptIsMiss == cached.state = "hit" => WellFormed(cached.entry)

\* C8 as stated: when a pruning pass has completed, no key it collected
\* still holds a corrupt entry.
C8_PruneRemovesCorrupt ==
    ppc = "done" => \A n \in 1..Len(pkeys) : ~Corrupt(localStorage[pkeys[n]])

\* C9 as stated: write_cache stores an entry only after a traversal that
\* merged at least one page and was not cut short by a failed retrieval.
C9_WriteOnlyOnSuccess ==
    (max_pages >= 1 /\ writes > 0) => (NoPageFailed /\ merged >= 1)

\* C10 as stated: while the script waits for the reload click after a cache
\* hit, the cached distribution is shown, nothing is fetched, merged or
\* written, and the stored entry stays exactly as it was read.
C10_GateLeavesEntry ==
    pc = "gate"
        => /\ ui.value = HistogramOf(cached.entry)
           /\ ratings_dist = HistogramOf(cached.entry)
           /\ fetches = 0 /\ merged = 0 /\ writes = 0
           /\ localStorage[cache_key] = cached.entry

\* C10 amended: the same, except that the stored entry may be gone once it
\* has expired and the pruning pass of the visit has removed it.
C10_GateLeavesEntryUnlessPruned ==
    pc = "gate"
        => /\ ui.value = HistogramOf(cached.entry)
           /\ ratings_dist = HistogramOf(cached.entry)
           /\ fetches = 0 /\ merged = 0 /\ writes = 0
           /\ \/ localStorage[cache_key] = cached.entry
              \/ /\ localStorage[cache_key] = Absent
                 /\ Expired(cached.entry.timestamp)
                 /\ ppc \in {"running", "done"}

C10_Witness ==
    /\ pc = "gate" /\ ppc = "done" /\ ticks >= 1
    /\ WellFormed(cached.entry)
    /\ localStorage[cache_key] = cached.entry

\* the traversal of this visit was started by the click on the reload button
Reloaded == cached.state = "hit" /\ pc # "gate"

\* the entry write_cache stores for distribution h at time at
EntryOf(h, at) == Object(Num(at), Ratings([s \in Sel |-> Num(h[s])]))

\* C11: after a click on the reload button the distribution is the sum of
\* the pages merged since, with nothing of the cached counts in it, and when
\* the traversal has completed the entry stored for the key (until a pruning
\* pass removes it) holds that distribution and the time of the write.
C11_ReloadStartsFromZero ==
    Reloaded
        => /\ ratings_dist = SumFirst(merged)
           /\ (pc = "done" /\ localStorage[cache_key] # Absent)
                 => /\ localStorage[cache_key] = EntryOf(ratings_dist, written.at)
                    /\ written.at >= cached.at
                    /\ written.at <= now

C11_Witness ==
    /\ Reloaded /\ pc = "done" /\ merged = 3
    /\ HistogramOf(cached.entry) = <<1, 1, 1, 1, 1, 1>>
    /\ ratings_dist = <<1, 2, 0, 0, 0, 3>>
    /\ written.at > cached.entry.timestamp.v
    /\ localStorage[cache_key] = EntryOf(<<1, 2, 0, 0, 0, 3>>, now)

\* C12 as stated: every slot of the distribution, and of the distribution
\* last shown, is a non-negative integer in every reachable state.
C12_SlotsNonNegative ==
    \A s \in Sel : /\ ratings_dist[s] # NaN /\ ratings_dist[s] >= 0
                   /\ ui.value[s] # NaN /\ ui.value[s] >= 0

\* the numbers of the session that a step of it changes
progress == <<pc, ratings_dist, merged, fetches, writes, nsnap>>

\* C13: without a cache key the read is a miss, no step of the session
\* changes localStorage, and the distribution is the sum of the pages merged,
\* min(K, N) of them at the end when no page failed, as with a key.
C13_NoKeyNoCache ==
    [][ cache_key = NoKey
          => /\ cached'.state # "hit" /\ writes' = 0 /\ pc' # "gate"
             /\ ratings_dist' = SumFirst(merged')
             /\ (Ended' /\ ~src.endless /\ K >= 1 /\ max_pages >= 1 /\ NoPageFailed')
                    => merged' = Min(K, max_pages)
             /\ (progress' # progress => localStorage' = localStorage) ]_vars

C13_Witness ==
    /\ cache_key = NoKey /\ pc = "done" /\ cached.state = "miss"
    /\ merged = 3 /\ ratings_dist = <<1, 2, 0, 0, 0, 3>>
    /\ localStorage[FilmKey] = Object(Num(0), Ratings(Ones))

\* calls of update_ui by the traversal: those of the visit but the one that
\* shows a cache hit
TraversalSnapshots == nsnap - (IF cached.state = "hit" THEN 1 ELSE 0)

\* C14 as stated: a traversal that has ended, in whichever way, has emitted
\* at least one snapshot.
C14_SnapshotBeforeEnd == Ended => TraversalSnapshots >= 1

\* C14 amended: a traversal that has ended after merging at least one page
\* has emitted at least one snapshot; one over a page without the ratings
\* section has emitted none.
C14_SnapshotWhenMerged ==
    Ended => /\ merged >= 1 => TraversalSnapshots >= 1
             /\ merged = 0 => TraversalSnapshots = 0

C14_Witness ==
    /\ pc = "done" /\ failure.kind = "nosection" /\ failure.href # NoRef
    /\ merged = 2 /\ TraversalSnapshots = 2

Range(seq) == {seq[n] : n \in 1..Len(seq)}

\* a turn of the pruning loop: process was called
PruneTurn == visit' = visit /\ pcalls' # pcalls

\* the entry parses to an object whose timestamp is older than the TTL
ExpiredEntry(e) ==
    e.kind = "object" /\ e.timestamp.t = "num" /\ now - e.timestamp.v > TTL

\* the entry parses to an object whose timestamp is within the TTL
ValidEntry(e) ==
    e.kind = "object" /\ e.timestamp.t = "num" /\ now - e.timestamp.v <= TTL

\* C18: a pruning pass collects every key stored under the prefix, checks
\* each of them once before it completes, and removes the entry of a key
\* that is expired when checked; a removed entry comes back only by a write.
C18_PruneRemovesExpired ==
    [][ /\ (PruneTurn /\ ppc = "scheduled")
              => /\ Range(pkeys') = Prunable
                 /\ Len(pkeys') = Cardinality(Prunable)
                 /\ IF pkeys' = <<>> THEN ppc' = "done"
                    ELSE ppc' = "running" /\ pidx' = Len(pkeys') - 1
        /\ (PruneTurn /\ ppc = "running")
              => /\ pkeys' = pkeys
                 /\ IF pidx = 0 THEN ppc' = "done"
                    ELSE ppc' = "running" /\ pidx' = pidx - 1
        /\ (PruneTurn /\ ppc' = "running")
              => (ExpiredEntry(localStorage[pkeys'[pidx' + 1]])
                     => localStorage'[pkeys'[pidx' + 1]] = Absent)
        /\ (visit' = visit /\ writes' = writes)
              => \A k \in PrefixedKeys :
                     localStorage[k] = Absent => localStorage'[k] = Absent ]_vars

C18_Witness ==
    /\ ppc = "done" /\ visit = 1 /\ writes = 0 /\ Len(pkeys) = 2
    /\ cached.state = "miss"
    /\ cached.entry = Object(Num(0 - TTL - 1), Ratings(Ones))
    /\ \A k \in PrefixedKeys : localStorage[k] = Absent

\* C19: a turn of the pruning loop leaves every entry as it is, except that
\* it may remove the entry of a key under the prefix that is not valid
\* (parseable and within the TTL) at that moment.
C19_PruneFrame ==
    [][ PruneTurn
          => \A k \in Keys :
                 \/ localStorage'[k] = localStorage[k]
                 \/ /\ localStorage'[k] = Absent
                    /\ k \in PrefixedKeys
                    /\ ~ValidEntry(localStorage[k]) ]_vars

C19_Witness ==
    /\ ppc = "done" /\ visit = 1 /\ writes = 0 /\ ticks = 0 /\ Len(pkeys) = 2
    /\ localStorage[ForeignKey] = Garbage
    /\ localStorage[FilmKey] = Object(Num(0 - TTL), Ratings(Ones))
    /\ \E k \in PrefixedKeys : localStorage[k] = Absent

\* C20: within one page load the wait for the click is entered only from
\* the read of the cache and is never entered again once left, the script
\* writes the cache at most once, and once its traversal is over nothing
\* more is fetched, merged or written.
C20_GateOneShot ==
    [][ visit' = visit
          => /\ writes' <= 1
             /\ (pc' = "gate" => pc \in {"digest", "gate"})
             /\ (pc \in {"fetching", "done", "rejected"}
                    => pc' \in {"fetching", "done", "rejected"})
             /\ Ended => /\ pc' = pc
                         /\ merged' = merged /\ fetches' = fetches
                         /\ writes' = writes /\ ratings_dist' = ratings_dist ]_vars

C20_Witness ==
    /\ cached.state = "hit" /\ pc = "done" /\ ppc = "done"
    /\ writes = 1 /\ merged = 3 /\ fetches = 3

(***************************************************************************)
(* sink as a function of the order of the pages: the pages of a source are *)
(* merged from the zero distribution one by one, in any order.             *)
(***************************************************************************)
\* count vectors of a page; the first and the last count in the same slot
MergeVectors == {PageA, PageB, PageC, Unit(1, 2)}

\* every source of up to MaxMergeLen pages with these vectors
MergeSources ==
    UNION { {[pages |-> ps, endless |-> FALSE] : ps \in [1..n -> MergeVectors]}
              : n \in 0..MaxMergeLen }

\* the script is not run: its variables stay as initialize() leaves them
ScriptAtRest ==
    /\ cache_key = NoKey
    /\ localStorage = [k \in Keys |-> Absent]
    /\ now = 0
    /\ ticks = 0
    /\ visit = 1
    /\ pc = "init"
    /\ inflight = NoFetch
    /\ ui = update_ui(Zero, 0)
    /\ writes = 0
    /\ cached = NotRead
    /\ written = NoWrite
    /\ ppc = "unscheduled"
    /\ pkeys = <<>>
    /\ pidx = 0
    /\ pcalls = 0

\* the variables of the script no step of these specifications changes
rest == <<cache_key, localStorage, now, ticks, visit, pc, inflight, ui, writes,
          cached, written, pruner>>

InitMerge ==
    /\ src \in MergeSources
    /\ max_pages = MaxPages
    /\ ratings_dist = Zero
    /\ merged = 0
    /\ i = max_pages
    /\ nsnap = 0
    /\ fetches = 0
    /\ failure = NoFailure
    /\ ScriptAtRest
    /\ NoSpeculation

\* sink(source) for a page not merged yet, whichever it is
MergeAnyPage ==
    \E p \in (1..Len(src.pages)) \ applied :
        /\ ratings_dist' = sink(p, ratings_dist)
        /\ applied' = applied \cup {p}
        /\ merged' = merged + 1
        /\ UNCHANGED <<rest, max_pages, src, i, nsnap, fetches, failure,
                       concurrency_width, in_flight, next_index, terminal_index,
                       phase>>

NextMerge == MergeAnyPage

SpecMerge == InitMerge /\ [][NextMerge]_vars

\* C15: whatever the order the pages of a source are merged in from the
\* zero distribution, the distribution after the last of them is the same:
\* the slot-by-slot sum of the pages taken in their order of index.
C15_MergeOrderFree ==
    applied = 1..K => /\ merged = K
                      /\ ratings_dist = SumFirst(K)

C15_Witness ==
    /\ src.pages = <<PageA, PageC, Unit(1, 2)>>
    /\ applied = {1, 2, 3}
    /\ ratings_dist = <<3, 0, 0, 0, 0, 3>>

(***************************************************************************)
(* The bounded-concurrency speculative traversal (run_concurrent), after   *)
(* section 4.2 of the specification.  Pages are requested by index; a page *)
(* merges with sink, ends the source as get_next_page_url tells, and the   *)
(* budget is tested as the loop of the script tests it.                    *)
(***************************************************************************)
\* section 6: a concurrency_width of 0 or 1 selects the sequential mode, which
\* has one retrieval outstanding at a time
EffectiveWidth == IF concurrency_width <= 1 THEN 1 ELSE concurrency_width

\* step 2: the in-flight set is full
SetFull == Cardinality(in_flight) >= EffectiveWidth

\* step 2: the iteration budget is exhausted; i is the budget left after the
\* pages merged, and every retrieval outstanding is to take one of it
BudgetExhausted == BudgetReached(i - Cardinality(in_flight))

\* the index is past the last page of a source that ends
Beyond(p) == ~src.endless /\ p > Len(src.pages)

\* step 4: the parser reports no further page
Terminal(p) == get_next_page_url(p) = NoRef

\* step 3: the partial counts of the page merged; a page past the end has
\* no ratings
MergePage(p, dist) == IF Beyond(p) THEN dist ELSE sink(p, dist)

\* steps 2 and 4: a new retrieval may be issued
CanIssue ==
    /\ phase = "running"
    /\ terminal_index = 0
    /\ ~SetFull
    /\ ~BudgetExhausted
    /\ next_index <= MaxIndex

ConcurrentSources == {s \in Sources : Len(s.pages) >= 1}

InitConcurrent ==
    /\ max_pages \in 1..MaxBudget
    /\ src \in ConcurrentSources
    /\ concurrency_width \in 0..MaxWidth
    /\ applied = {}
    /\ in_flight = {}
    /\ next_index = 1
    /\ terminal_index = 0
    /\ phase = "initial"
    /\ ratings_dist = Zero
    /\ merged = 0
    /\ i = max_pages
    /\ nsnap = 0
    /\ fetches = 0
    /\ failure = NoFailure
    /\ ScriptAtRest

\* step 1: the initial page is processed synchronously
ProcessInitialPage ==
    /\ phase = "initial"
    /\ ratings_dist' = sink(1, ratings_dist)
    /\ applied' = {1}
    /\ merged' = merged + 1
    /\ i' = i - 1
    /\ nsnap' = nsnap + 1
    /\ terminal_index' = IF Terminal(1) THEN 1 ELSE 0
    /\ next_index' = 2
    /\ phase' = "running"
    /\ UNCHANGED <<rest, max_pages, src, fetches, failure, concurrency_width,
                   in_flight>>

\* step 2: one more retrieval is issued, for the next index
IssueNext ==
    /\ CanIssue
    /\ in_flight' = in_flight \cup {next_index}
    /\ next_index' = next_index + 1
    /\ fetches' = fetches + 1
    /\ UNCHANGED <<rest, max_pages, src, ratings_dist, merged, i, nsnap, failure,
                   concurrency_width, applied, terminal_index, phase>>

\* steps 3 to 5: the retrieval of page p is the first to complete, with
\* content or as unavailable
Complete(p, outcome) ==
    /\ phase = "running"
    /\ ~CanIssue
    /\ p \in in_flight
    /\ in_flight' = in_flight \ {p}
    /\ UNCHANGED <<rest, max_pages, src, fetches, concurrency_width, next_index>>
    /\ CASE outcome = "unavailable" ->
              /\ failure' = [kind |-> "notok", href |-> p]
              /\ phase' = IF in_flight' = {} THEN "finished" ELSE phase
              /\ UNCHANGED <<ratings_dist, applied, merged, i, nsnap, terminal_index>>
         [] outcome = "content" /\ terminal_index # 0 /\ p > terminal_index ->
              UNCHANGED <<ratings_dist, applied, merged, i, nsnap, terminal_index,
                          failure, phase>>
         [] OTHER ->
              /\ ratings_dist' = MergePage(p, ratings_dist)
              /\ applied' = applied \cup {p}
              /\ merged' = merged + 1
              /\ i' = i - 1
              /\ nsnap' = nsnap + 1
              /\ terminal_index' =
                    IF Terminal(p) /\ (terminal_index = 0 \/ p < terminal_index)
                      THEN p ELSE terminal_index
              /\ UNCHANGED <<failure, phase>>

\* nothing is outstanding and nothing more is to be issued
Finish ==
    /\ phase = "running"
    /\ in_flight = {}
    /\ ~CanIssue
    /\ phase' = "finished"
    /\ UNCHANGED <<rest, max_pages, src, ratings_dist, merged, i, nsnap, fetches,
                   failure, concurrency_width, applied, in_flight, next_index,
                   terminal_index>>

NextConcurrent ==
    \/ ProcessInitialPage
    \/ IssueNext
    \/ \E p \in 2..MaxIndex, outcome \in {"content", "unavailable"} : Complete(p, outcome)
    \/ Finish

SpecConcurrent == InitConcurrent /\ [][NextConcurrent]_vars

AtLeastOne(w) == IF w > 1 THEN w ELSE 1

TerminalFound == \E p \in applied : ~src.endless /\ p >= K

\* C17: once a page merged is terminal no retrieval is issued; a retrieval
\* outstanding for a lower index that completes with content is merged, one
\* for an index past the terminal index is never merged, and the traversal
\* finishes only when nothing is outstanding.
C17_TerminalStopsSpeculation ==
    [][ /\ TerminalFound => (fetches' = fetches /\ next_index' = next_index)
        /\ terminal_index # 0
              => \A p \in in_flight \ in_flight' :
                     IF p < terminal_index
                       THEN failure' = failure => p \in applied'
                       ELSE p \notin applied'
        /\ phase' = "finished" => in_flight' = {} ]_vars

C17_Witness ==
    /\ concurrency_width = 3 /\ ~src.endless /\ K = 2
    /\ phase = "finished" /\ terminal_index = 2 /\ failure = NoFailure
    /\ applied = {1, 2, 3} /\ fetches = 3 /\ next_index = 5
    /\ ratings_dist = <<1, 2, 0, 0, 0, 0>>

\* C21: a turn of the script that merges a page also emits a snapshot, and
\* the snapshot shows the distribution that results from the merge; while a
\* retrieval is awaited the distribution shown is the one merged so far; the
\* snapshots of a traversal number at least the pages merged.
C21_SnapshotAfterMerge ==
    [][ /\ (visit' = visit /\ merged' > merged)
              => /\ nsnap' > nsnap
                 /\ ui'.value = ratings_dist'
        /\ pc' = "fetching" => ui'.value = ratings_dist'
        /\ TraversalSnapshots' >= merged' ]_vars

C21_Witness ==
    /\ pc = "fetching" /\ merged = 2 /\ TraversalSnapshots = 2
    /\ ratings_dist = <<1, 2, 0, 0, 0, 0>>
    /\ ui.value = <<1, 2, 0, 0, 0, 0>>

\* C22: from the first page merged on, no slot of the distribution, nor of
\* the distribution shown, is lower after a turn of the traversal than before.
C22_SlotsNeverDecrease ==
    [][ (visit' = visit /\ merged >= 1)
          => \A s \in Sel : /\ ratings_dist'[s] >= ratings_dist[s]
                            /\ ui'.value[s] >= ui.value[s] ]_vars

C22_Witness ==
    /\ pc = "done" /\ merged = 3 /\ TraversalSnapshots = 4
    /\ ui.value = <<1, 2, 0, 0, 0, 3>>

\* C23: with a ceiling N >= 1 a traversal issues at most N - 1 retrievals,
\* none is awaited once N pages are merged, and the pages merged plus the
\* budget left, i, are N.
C23_RetrievalsBelowCeiling ==
    max_pages >= 1
        => /\ fetches <= max_pages - 1
           /\ merged + i = max_pages
           /\ merged = max_pages => (pc = "done" /\ ~inflight.active)

C23_Witness ==
    /\ max_pages = 3 /\ src.endless /\ pc = "done"
    /\ merged = 3 /\ fetches = 2 /\ i = 0

(***************************************************************************)
(* One page load under fair scheduling of the timers: the event loop runs  *)
(* every timer that is due, whatever the script awaits.  Nothing obliges   *)
(* the user to click, a fetch() to settle, nor time to pass.               *)
(***************************************************************************)
NextSession ==
    \/ Start
    \/ ReadCache
    \/ Click
    \/ \E outcome \in {"ok", "nosection", "notok", "throw"} : FetchResolve(outcome)
    \/ PruneStart
    \/ PruneStep
    \/ \E d \in TickSteps : Tick(d)

Fairness ==
    /\ WF_vars(PruneStart)
    /\ WF_vars(PruneStep)

SpecLive == Init /\ [][NextSession]_vars /\ Fairness

\* C24 as stated: with a ceiling N >= 1 and a cache key, a traversal whose
\* retrievals have all settled, with content or with a failure, has finished
\* and the cache is written: the script never comes to rest in another way.
\* (Retrievals of pages of the source only: the fetch of the URL built from
\* a null href is left aside.)
C24_FinishesAndWrites ==
    (/\ max_pages >= 1 /\ cache_key # NoKey
     /\ fetches >= 1 /\ ~inflight.active
     /\ (failure.kind = "none" \/ failure.href # NoRef))
        => (pc = "done" /\ writes >= 1)

\* C28: in every page load, whether the read of the cache hits or misses or
\* there is no key, the pruning pass is scheduled before the script first
\* suspends, and under fair timers it runs until process has returned for
\* the last time, also while the script waits for a click that never comes.
C28_PruneRunsToCompletion ==
    /\ [](pc # "init" => ppc # "unscheduled")
    /\ (ppc = "scheduled") ~> (ppc = "done" /\ pidx = 0)

C28_Witness ==
    /\ pc = "gate" /\ ppc = "done" /\ pcalls = 3 /\ ticks = 0
    /\ localStorage[cache_key] = cached.entry

\* C25: a turn in which write_cache runs with a key leaves under the key the
\* entry of the distribution written and the time of the write, whatever
\* the key held before, and leaves every other key as it was.
C25_WriteReplacesEntry ==
    [][ (visit' = visit /\ writes' > writes)
          => /\ cache_key # NoKey
             /\ localStorage'[cache_key] = EntryOf(ratings_dist', now)
             /\ \A k \in Keys \ {cache_key} : localStorage'[k] = localStorage[k] ]_vars

C25_Witness ==
    /\ pc = "done" /\ writes = 1 /\ ppc = "scheduled"
    /\ cached.state = "miss" /\ cached.entry = Garbage
    /\ localStorage[FilmKey] = EntryOf(<<1, 2, 0, 0, 0, 3>>, now)
    /\ localStorage[ForeignKey] = Garbage
    /\ \E k \in PrefixedKeys \ {FilmKey} : localStorage[k] = Object(Num(0), NoRatings)

\* the keys collected are all different
Distinct(seq) == \A m, n \in 1..Len(seq) : m # n => seq[m] # seq[n]

\* what a turn of the pruning loop does: the list of keys stays as collected,
\* the turn examines the key next in the countdown and no other, and a turn
\* with no key to examine deletes nothing and is the last
PruneCountdown ==
    /\ Distinct(pkeys')
    /\ pcalls' = pcalls + 1
    /\ ppc = "running" => (pkeys' = pkeys /\ pidx' = (IF pidx = 0 THEN 0 ELSE pidx - 1))
    /\ ppc = "scheduled" => pidx' = (IF pkeys' = <<>> THEN 0 ELSE Len(pkeys') - 1)
    /\ ppc' = "running"
          => \A k \in Keys \ {pkeys'[pidx' + 1]} : localStorage'[k] = localStorage[k]
    /\ ppc' = "done" => localStorage' = localStorage
    /\ ppc' = "done" <=> (IF ppc = "scheduled" THEN pkeys' = <<>> ELSE pidx = 0)

\* C26 as stated: the pass examines each key it collected once, one per
\* turn, no callback is pending once the last key is examined, a pass over
\* no keys deletes nothing, and under fair timers the pass ends.
C26_OneCallbackPerKey ==
    /\ [][ /\ PruneTurn => PruneCountdown
           /\ ppc' = "running" => pidx' >= 1
           /\ (ppc = "done" /\ visit' = visit) => UNCHANGED pruner ]_vars
    /\ (ppc = "scheduled") ~> (ppc = "done")

\* C26 amended: the same, except that the callback scheduled after the last
\* key still runs: it examines nothing, deletes nothing and schedules
\* nothing, so a pass over n keys takes n + 1 calls of process.
C26_PruneTerminates ==
    /\ [][ /\ PruneTurn => PruneCountdown
           /\ ppc' = "running" => pcalls' + pidx' = Len(pkeys')
           /\ ppc' = "done" => pcalls' = Len(pkeys') + 1
           /\ (ppc = "done" /\ visit' = visit) => UNCHANGED pruner ]_vars
    /\ (ppc = "running") ~> (ppc = "done")

C26_Witness ==
    /\ ppc = "done" /\ Len(pkeys) = 2 /\ pcalls = 3 /\ pidx = 0
    /\ pc = "fetching" /\ ticks = 0
    /\ cached.entry = Garbage /\ localStorage[FilmKey] = Absent

\* the script has written the cache and the pruning pass of the page load
\* has ended
BothFinished == pc = "done" /\ writes = 1 /\ ppc = "done"

\* C27 as stated: when the script and the pruning pass have both finished,
\* in whatever order their turns came, the key holds the entry the script
\* wrote, with its final distribution.
C27_WrittenEntrySurvives ==
    BothFinished => localStorage[cache_key] = EntryOf(ratings_dist, written.at)

\* C27 amended: the same, unless more than the time to live passed between
\* the write and the turn of the pruning pass that examined the key, which
\* then removed the entry.
C27_WrittenEntrySurvivesWhileFresh ==
    BothFinished
        => \/ localStorage[cache_key] = EntryOf(ratings_dist, written.at)
           \/ /\ localStorage[cache_key] = Absent
              /\ now - written.at > TTL

C27_Witness ==
    /\ BothFinished /\ visit = 1 /\ ticks = 0 /\ merged = 3
    /\ cached.state = "miss"
    /\ cached.entry = Object(Num(0 - TTL - 1), Ratings(Ones))
    /\ FilmKey \in Range(pkeys)
    /\ localStorage[FilmKey] = EntryOf(<<1, 2, 0, 0, 0, 3>>, 0)

\* C29 as stated: from the click on the reload button until write_cache
\* runs, no turn changes the entry stored under the key; when the script
\* ends without reaching write_cache the entry stays as it was.
C29_EntryKeptUntilWrite ==
    [][ (Reloaded /\ visit' = visit /\ writes' = 0)
          => localStorage'[cache_key] = localStorage[cache_key] ]_vars

\* C29 amended: the same, except that a turn of the pruning pass may remove
\* the entry once it has expired.
C29_EntryKeptUntilWriteOrPruned ==
    [][ (Reloaded /\ visit' = visit /\ writes' = 0)
          => \/ localStorage'[cache_key] = localStorage[cache_key]
             \/ /\ localStorage'[cache_key] = Absent
                /\ ExpiredEntry(localStorage[cache_key])
                /\ PruneTurn ]_vars

C29_Witness ==
    /\ Reloaded /\ pc = "rejected" /\ writes = 0 /\ ppc = "done"
    /\ merged = 2 /\ ratings_dist = <<1, 2, 0, 0, 0, 0>>
    /\ WellFormed(cached.entry)
    /\ localStorage[cache_key] = cached.entry

\* C30: when the read of the cache is a miss (no key, nothing stored, a value
\* that does not parse, an expired entry, an entry without ratings) the
\* distribution passed to it is left as it was, all zeroes, and the
\* traversal that follows sums the pages from there.
C30_MissLeavesDestination ==
    cached.state = "miss"
        => /\ cached.hist = Zero
           /\ ratings_dist = SumFirst(merged)

C30_Witness ==
    /\ cached.state = "miss" /\ pc = "fetching" /\ merged = 1
    /\ cached.entry = Object(Num(0 - TTL - 1), Ratings(Ones))
    /\ cached.hist = Zero /\ ratings_dist = <<1, 0, 0, 0, 0, 0>>

====
